---- MODULE Spec2Model ----
(***************************************************************************)
(* A model of nussl.core.audio_signal.AudioSignal: the dual-representation *)
(* audio buffer (time-domain samples with an active region, STFT data,     *)
(* STFT parameters) and its public operations.                             *)
(*                                                                         *)
(* Encoding of Python values:                                              *)
(*   - a 2-D sample array is a tuple of rows (channels), each a tuple of   *)
(*     integers; a 3-D STFT array is a tuple [f][t][c] of complex numbers, *)
(*     each a pair <<re, im>> of integers; Python None in an array-valued  *)
(*     field is the empty tuple NoneArr;                                   *)
(*   - Python None in an integer-valued field is the sentinel None;        *)
(*   - a 2-D array without rows, of shape (0, n), is the tuple ZeroRows(n) *)
(*     (one row that starts with the sentinel None, followed by n zeros),  *)
(*     since a tuple of no rows cannot tell its number of columns;         *)
(*   - a value handed to a setter is a record [kind, ndim, dtype, data].   *)
(*   - an operation returns [s |-> the object afterwards, exc |-> the      *)
(*     exception raised or "none"].                                        *)
(***************************************************************************)
EXTENDS Integers, Sequences, FiniteSets, TLC

\* ------------------------------------------------------------------ bounds
MaxLen == 3
MaxOps == 2

\* --------------------------------------------------------- Python encoding
None == -99
NoneArr == <<>>
Inf == 99999

ASE == "AudioSignalException"

DEFAULT_WIN_LEN_MS == 32

DEFAULT_SAMPLE_RATE == 44100
INT16_SCALE == 32768
LEN_INDEX == 2
CHAN_INDEX == 1

Min(a, b) == IF a < b THEN a ELSE b
Max(a, b) == IF a > b THEN a ELSE b

\* s[start:stop] of a Python sequence (negative indices count from the end)
PySlice(s, start, stop) ==
    LET n == Len(s)
        lo == Max(0, Min(n, IF start < 0 THEN start + n ELSE start))
        hi == Max(0, Min(n, IF stop < 0 THEN stop + n ELSE stop))
    IN IF lo < hi THEN SubSeq(s, lo + 1, hi) ELSE <<>>

\* ------------------------------------------------------------ numpy arrays
\* a complex number, and its product with a real number
Complex(re, im) == <<re, im>>
CScale(z, k) == <<z[1] * k, z[2] * k>>

NdArray(ndim, dtype, data) ==
    [kind |-> "ndarray", ndim |-> ndim, dtype |-> dtype, data |-> data]
PyNone == [kind |-> "None", ndim |-> 0, dtype |-> "none", data |-> <<>>]
PyList == [kind |-> "list", ndim |-> 0, dtype |-> "none", data |-> <<>>]

\* the 2-D array of shape (0, n)
ZeroRows(n) == << <<None>> \o [i \in 1..n |-> 0] >>
IsZeroRows(a) == Len(a) = 1 /\ Len(a[1]) > 0 /\ a[1][1] = None

\* a.shape[0] and a.shape[1] of a 2-D array (NumCols is a.shape[LEN_INDEX])
NumRows(a) == IF IsZeroRows(a) THEN 0 ELSE Len(a)
NumCols(a) ==
    IF IsZeroRows(a) THEN Len(a[1]) - 1
    ELSE IF Len(a) = 0 THEN 0 ELSE Len(a[1])

\* value.shape
Shape(v) ==
    CASE v.ndim = 1 -> <<Len(v.data)>>
      [] v.ndim = 2 -> <<NumRows(v.data), NumCols(v.data)>>
      [] v.ndim = 3 -> <<Len(v.data), Len(v.data[1]), Len(v.data[1][1])>>
      [] OTHER -> <<>>

\* np.isfinite(value).all()
AllFinite(v) ==
    CASE v.ndim = 1 -> \A i \in DOMAIN v.data : v.data[i] # Inf
      [] v.ndim = 2 -> \A i \in DOMAIN v.data : \A j \in DOMAIN v.data[i] :
                          v.data[i][j] # Inf
      [] v.ndim = 3 -> \A i \in DOMAIN v.data : \A j \in DOMAIN v.data[i] :
                          \A k \in DOMAIN v.data[i][j] : v.data[i][j][k] # Inf
      [] OTHER -> TRUE

\* value.T (all axes reversed)
Transpose(v) ==
    LET sh == Shape(v)
    IN CASE v.ndim = 2 ->
              [v EXCEPT !.data =
                  IF sh[2] = 0 THEN ZeroRows(sh[1])
                  ELSE IF sh[1] = 0 THEN [j \in 1..sh[2] |-> <<>>]
                  ELSE [j \in 1..sh[2] |-> [i \in 1..sh[1] |-> v.data[i][j]]]]
         [] v.ndim = 3 ->
              [v EXCEPT !.data = [k \in 1..sh[3] |-> [j \in 1..sh[2] |->
                                    [i \in 1..sh[1] |-> v.data[i][j][k]]]]]
         [] OTHER -> v

\* np.expand_dims(value, axis=0) of a 1-D array
ExpandDims(v) == [v EXCEPT !.ndim = 2, !.data = <<v.data>>]

\* the columns start..stop-1 of a 2-D array: a[:, start:stop]
Cols(a, start, stop) ==
    IF IsZeroRows(a) THEN ZeroRows(Len(PySlice(Tail(a[1]), start, stop)))
    ELSE [c \in 1..Len(a) |-> PySlice(a[c], start, stop)]

\* elementwise a * value
Scale(a, value) ==
    IF IsZeroRows(a) THEN a
    ELSE [c \in 1..Len(a) |-> [i \in 1..Len(a[c]) |->
            IF value = Inf THEN Inf ELSE a[c][i] * value]]

\* elementwise a + b of two arrays of the same shape
Plus(a, b) ==
    IF IsZeroRows(a) THEN a
    ELSE [c \in 1..Len(a) |-> [i \in 1..Len(a[c]) |-> a[c][i] + b[c][i]]]

\* np.concatenate((a, b), axis=LEN_INDEX)
Concatenate(a, b) ==
    IF IsZeroRows(a) THEN ZeroRows(NumCols(a) + NumCols(b))
    ELSE [c \in 1..Len(a) |-> a[c] \o b[c]]

\* np.pad(a, ((0, 0), (before, after)), 'constant')
Pad(a, before, after) ==
    IF IsZeroRows(a) THEN ZeroRows(NumCols(a) + before + after)
    ELSE [c \in 1..Len(a) |-> [i \in 1..before |-> 0] \o a[c] \o [i \in 1..after |-> 0]]

\* ---------------------------------------------------------------- the object
\* the fields __init__ creates, before any source is loaded
BlankSignal ==
    [path_to_input_file |-> "None",
     _audio_data |-> NoneArr,
     original_signal_length |-> None,
     _stft_data |-> NoneArr,
     _sample_rate |-> None,
     _active_start |-> None,
     _active_end |-> None,
     label |-> "None",
     _stft_params |-> [window_length |-> None, hop_length |-> None, window_type |-> "None"]]

\* the outcome of a call: the object afterwards, the exception raised ("none"
\* when it returned), what was returned ("None", "self", or "new": the
\* AudioSignal in ret)
\* a returned value that is not an AudioSignal: a real 1-D or 2-D array, a
\* complex 2-D or 3-D array, or a boolean, each kept in a field of its own
NoValue ==
    [r1 |-> <<>>, r2 |-> <<>>, c2 |-> <<>>, c3 |-> <<>>, bool |-> FALSE,
     r1s |-> <<>>, c2s |-> <<>>]
Real1(x) == [NoValue EXCEPT !.r1 = x]
Real2(x) == [NoValue EXCEPT !.r2 = x]
Complex2(x) == [NoValue EXCEPT !.c2 = x]
Complex3(x) == [NoValue EXCEPT !.c3 = x]
Bool(x) == [NoValue EXCEPT !.bool = x]
Real1s(x) == [NoValue EXCEPT !.r1s = x]
Complex2s(x) == [NoValue EXCEPT !.c2s = x]

Ok(s) == [s |-> s, exc |-> "none", kind |-> "None", ret |-> BlankSignal, val |-> NoValue]
Raise(s, e) == [s |-> s, exc |-> e, kind |-> "None", ret |-> BlankSignal, val |-> NoValue]
ReturnSelf(s) == [s |-> s, exc |-> "none", kind |-> "self", ret |-> BlankSignal, val |-> NoValue]
ReturnNew(s, new) == [s |-> s, exc |-> "none", kind |-> "new", ret |-> new, val |-> NoValue]

\* the outcome of a call that returns a value other than None, self or a new
\* AudioSignal (an array, a boolean)
ReturnValue(s, v) ==
    [s |-> s, exc |-> "none", kind |-> "value", ret |-> BlankSignal, val |-> v]

\* AudioSignal._signal_length
_signal_length(s) ==
    IF s._audio_data = NoneArr THEN None ELSE NumCols(s._audio_data)

\* AudioSignal.audio_data (getter): the active window of the stored array
audio_data(s) ==
    IF s._audio_data = NoneArr THEN NoneArr
    ELSE LET full == NumCols(s._audio_data)
             end == IF s._active_end # None /\ s._active_end < full
                    THEN s._active_end ELSE full
             start == IF s._active_start # None /\ s._active_start > 0
                      THEN s._active_start ELSE 0
         IN Cols(s._audio_data, start, end)

\* AudioSignal.signal_length
signal_length(s) ==
    IF audio_data(s) = NoneArr THEN s.original_signal_length
    ELSE NumCols(audio_data(s))

\* AudioSignal.num_channels
num_channels(s) ==
    IF audio_data(s) # NoneArr THEN NumRows(audio_data(s))
    ELSE IF s._stft_data # NoneArr THEN Len(s._stft_data[1][1])
    ELSE None

\* AudioSignal.active_region_is_default
active_region_is_default(s) ==
    s._active_start = 0 /\ s._active_end = _signal_length(s)

\* AudioSignal.set_active_region_to_default
set_active_region_to_default(s) ==
    [s EXCEPT !._active_start = 0, !._active_end = _signal_length(s)]

\* set_active_region without the clamping of its arguments
set_active_region_unclamped(s, start, end) ==
    IF _signal_length(s) = None THEN Raise([s EXCEPT !._active_start = start], "TypeError")
    ELSE Ok([s EXCEPT !._active_start = start, !._active_end = end])

\* AudioSignal.set_active_region: the start is stored before the end is
\* compared with _signal_length, which raises a TypeError when that is None
set_active_region(s, start, end) ==
    LET s1 == [s EXCEPT !._active_start = IF start >= 0 THEN start ELSE 0]
    IN IF _signal_length(s) = None THEN Raise(s1, "TypeError")
       ELSE Ok([s1 EXCEPT !._active_end =
                   IF end < _signal_length(s) THEN end ELSE _signal_length(s)])

\* the audio_data setter without its transposition of arrays with more rows
\* than columns
audio_data_setter_as_given(s, value) ==
    IF value.kind = "None" THEN Ok([s EXCEPT !._audio_data = NoneArr])
    ELSE IF value.kind # "ndarray" THEN Raise(s, ASE)
    ELSE IF ~AllFinite(value) THEN Raise(s, ASE)
    ELSE IF value.ndim > 2 THEN Raise(s, ASE)
    ELSE LET v2 == IF value.ndim < 2 THEN ExpandDims(value) ELSE value
         IN Ok(set_active_region_to_default([s EXCEPT !._audio_data = v2.data]))

\* AudioSignal.audio_data (setter)
audio_data_setter(s, value) ==
    IF value.kind = "None" THEN Ok([s EXCEPT !._audio_data = NoneArr])
    ELSE IF value.kind # "ndarray" THEN Raise(s, ASE)
    ELSE IF ~AllFinite(value) THEN Raise(s, ASE)
    ELSE LET v1 == IF value.ndim > 1 /\ Shape(value)[CHAN_INDEX] > Shape(value)[LEN_INDEX]
                   THEN Transpose(value) ELSE value
         IN IF v1.ndim > 2 THEN Raise(s, ASE)
            ELSE LET v2 == IF v1.ndim < 2 THEN ExpandDims(v1) ELSE v1
                 IN Ok(set_active_region_to_default([s EXCEPT !._audio_data = v2.data]))

\* the setter with a reset of the active region after the assignment
stft_data_setter_resetting_region(s, value) ==
    IF value.kind = "None" THEN Ok([s EXCEPT !._stft_data = NoneArr])
    ELSE IF value.kind # "ndarray" THEN Raise(s, ASE)
    ELSE IF value.ndim = 1 THEN Raise(s, ASE)
    ELSE LET v1 == IF value.ndim = 2
                   THEN [value EXCEPT !.ndim = 3,
                            !.data = [f \in 1..Len(value.data) |->
                                        [t \in 1..Len(value.data[f]) |-> <<value.data[f][t]>>]]]
                   ELSE value
         IN IF v1.ndim > 3 THEN Raise(s, ASE)
            ELSE Ok(set_active_region_to_default([s EXCEPT !._stft_data = v1.data]))

\* AudioSignal.stft_data (setter)
stft_data_setter(s, value) ==
    IF value.kind = "None" THEN Ok([s EXCEPT !._stft_data = NoneArr])
    ELSE IF value.kind # "ndarray" THEN Raise(s, ASE)
    ELSE IF value.ndim = 1 THEN Raise(s, ASE)
    ELSE LET v1 == IF value.ndim = 2
                   THEN [value EXCEPT !.ndim = 3,
                            !.data = [f \in 1..Len(value.data) |->
                                        [t \in 1..Len(value.data[f]) |-> <<value.data[f][t]>>]]]
                   ELSE value
         IN IF v1.ndim > 3 THEN Raise(s, ASE)
            ELSE Ok([s EXCEPT !._stft_data = v1.data])

\* ------------------------------------------------------------ STFT parameters
STFTParams(window_length, hop_length, window_type) ==
    [window_length |-> window_length, hop_length |-> hop_length, window_type |-> window_type]

\* window types scipy.signal.get_window knows (the ones the model uses)
KnownWindows == {"hann", "boxcar"}

\* twice scipy.signal.get_window(window, n) (periodic), for the lengths the model
\* tabulates; the factor 2 keeps the Hann samples integral
WindowX2(window, n) ==
    IF window = "boxcar" THEN [i \in 1..n |-> 2]
    ELSE CASE n = 1 -> <<2>>
           [] n = 2 -> <<0, 2>>
           [] n = 4 -> <<0, 1, 2, 1>>
           [] OTHER -> <<>>

\* the exception scipy.signal.check_COLA(window, nperseg, noverlap) raises, if any
check_COLA_exc(window, nperseg, noverlap) ==
    IF nperseg < 1 THEN "ValueError"
    ELSE IF noverlap >= nperseg THEN "ValueError"
    ELSE IF window \notin KnownWindows THEN "ValueError"
    ELSE "none"

\* int(2 ** ceil(log2(x))) for x = num / den > 0
RECURSIVE PowerOfTwoAtLeast(_, _, _)
PowerOfTwoAtLeast(p, num, den) ==
    IF p * den >= num THEN p ELSE PowerOfTwoAtLeast(2 * p, num, den)

DefaultWinLen(sample_rate) ==
    IF 2 * DEFAULT_WIN_LEN_MS * sample_rate <= 1000 THEN 0
    ELSE PowerOfTwoAtLeast(1, DEFAULT_WIN_LEN_MS * sample_rate, 1000)

\* the setter with an unset hop filled from the window length of the value
stft_params_setter_hop_from_window(s, value) ==
    IF value.kind = "other" THEN Raise(s, "ValueError")
    ELSE LET default_win_len == DefaultWinLen(s._sample_rate)
             default == STFTParams(default_win_len, default_win_len \div 4, "hann")
             given == IF value.kind = "STFTParams" THEN value.params ELSE default
             filled == STFTParams(
                 IF given.window_length = None THEN default.window_length
                                               ELSE given.window_length,
                 IF given.hop_length # None THEN given.hop_length
                 ELSE IF given.window_length = None THEN default.hop_length
                 ELSE given.window_length \div 4,
                 IF given.window_type = "None" THEN default.window_type
                                               ELSE given.window_type)
             s1 == [s EXCEPT !._stft_params = filled]
             window_type == IF filled.window_type = "sqrt_hann" THEN "hann"
                            ELSE filled.window_type
             e == check_COLA_exc(window_type, filled.window_length, filled.hop_length)
         IN IF e # "none" THEN Raise(s1, e) ELSE Ok(s1)

\* AudioSignal.stft_params (setter).  value: [kind |-> "None" | "STFTParams" | "other",
\* params |-> ...].  The new value is stored before check_COLA is called, and the
\* boolean check_COLA returns is not looked at.
stft_params_setter(s, value) ==
    IF value.kind = "other" THEN Raise(s, "ValueError")
    ELSE LET default_win_len == DefaultWinLen(s._sample_rate)
             default == STFTParams(default_win_len, default_win_len \div 4, "hann")
             given == IF value.kind = "STFTParams" THEN value.params ELSE default
             filled == STFTParams(
                 IF given.window_length = None THEN default.window_length
                                               ELSE given.window_length,
                 IF given.hop_length = None THEN default.hop_length ELSE given.hop_length,
                 IF given.window_type = "None" THEN default.window_type
                                               ELSE given.window_type)
             s1 == [s EXCEPT !._stft_params = filled]
             window_type == IF filled.window_type = "sqrt_hann" THEN "hann"
                            ELSE filled.window_type
             e == check_COLA_exc(window_type, filled.window_length, filled.hop_length)
         IN IF e # "none" THEN Raise(s1, e) ELSE Ok(s1)

\* ------------------------------------------------------------------------ I/O
\* signal.astype('float') / (np.iinfo(np.dtype('int16')).max + 1.0)
ToFloat(signal) ==
    [signal EXCEPT !.dtype = "float",
        !.data = IF signal.ndim = 1
                 THEN [i \in DOMAIN signal.data |-> signal.data[i] \div INT16_SCALE]
                 ELSE [c \in DOMAIN signal.data |-> [i \in DOMAIN signal.data[c] |->
                          signal.data[c][i] \div INT16_SCALE]]]

\* AudioSignal.load_audio_from_array(signal, sample_rate); sample_rate None stands
\* for both None and the omitted argument (each gives DEFAULT_SAMPLE_RATE)
load_audio_from_array(s, signal, sample_rate) ==
    IF signal.kind # "ndarray" THEN Raise(s, "AssertionError")
    ELSE LET s1 == [s EXCEPT !.path_to_input_file = "None"]
             sig1 == IF signal.dtype # "float" /\ signal.ndim <= 2 THEN ToFloat(signal)
                     ELSE signal
             r == audio_data_setter(s1, sig1)
         IN IF r.exc # "none" THEN r
            ELSE LET s2 == [r.s EXCEPT !.original_signal_length = signal_length(r.s)]
                     s3 == [s2 EXCEPT !._sample_rate =
                               IF sample_rate # None THEN sample_rate
                               ELSE DEFAULT_SAMPLE_RATE]
                 IN Ok(set_active_region_to_default(s3))

\* --------------------------------------------------------------- utilities
\* AudioSignal._verify_audio
verify_audio(s, other) ==
    IF num_channels(s) # num_channels(other) THEN ASE
    ELSE IF s._sample_rate # other._sample_rate THEN ASE
    ELSE "none"

\* AudioSignal._verify_audio_arithmetic
verify_audio_arithmetic(s, other) ==
    IF verify_audio(s, other) # "none" THEN verify_audio(s, other)
    ELSE IF signal_length(s) # signal_length(other) THEN ASE
    ELSE "none"

\* AudioSignal.concat
concat(s, other) ==
    IF verify_audio(s, other) # "none" THEN Raise(s, verify_audio(s, other))
    ELSE IF audio_data(s) = NoneArr \/ audio_data(other) = NoneArr
         THEN Raise(s, "ValueError")
    ELSE audio_data_setter(s, NdArray(2, "float",
                                    Concatenate(audio_data(s), audio_data(other))))

\* AudioSignal.truncate_samples
truncate_samples(s, n_samples) ==
    IF ~active_region_is_default(s) THEN Raise(s, ASE)
    ELSE IF signal_length(s) = None \/ audio_data(s) = NoneArr THEN Raise(s, "TypeError")
    ELSE LET n == IF n_samples > signal_length(s) THEN signal_length(s) ELSE n_samples
         IN audio_data_setter(s, NdArray(2, "float", Cols(audio_data(s), 0, n)))

\* AudioSignal.truncate_seconds; the duration is given in milliseconds, and
\* int(n_seconds * sample_rate) is the product's integer part
truncate_seconds(s, n_ms) ==
    truncate_samples(s, (n_ms * s._sample_rate) \div 1000)

\* crop_signal without its check of the active region
crop_signal_unguarded(s, before, after) ==
    IF signal_length(s) = None \/ audio_data(s) = NoneArr THEN Raise(s, "TypeError")
    ELSE LET r == audio_data_setter(s, NdArray(2, "float",
                      Cols(audio_data(s), before, signal_length(s) - after)))
         IN IF r.exc # "none" THEN r ELSE Ok(set_active_region_to_default(r.s))

\* AudioSignal.crop_signal
crop_signal(s, before, after) ==
    IF ~active_region_is_default(s) THEN Raise(s, ASE)
    ELSE IF signal_length(s) = None \/ audio_data(s) = NoneArr THEN Raise(s, "TypeError")
    ELSE LET r == audio_data_setter(s, NdArray(2, "float",
                      Cols(audio_data(s), before, signal_length(s) - after)))
         IN IF r.exc # "none" THEN r ELSE Ok(set_active_region_to_default(r.s))

\* AudioSignal.zero_pad
zero_pad(s, before, after) ==
    IF ~active_region_is_default(s) THEN Raise(s, ASE)
    ELSE IF audio_data(s) = NoneArr \/ before < 0 \/ after < 0 THEN Raise(s, "ValueError")
    ELSE audio_data_setter(s, NdArray(2, "float", Pad(audio_data(s), before, after)))

\* AudioSignal.apply_gain.  value: [real |-> is it a numbers.Real, v |-> the number]
apply_gain(s, value) ==
    IF ~value.real THEN Raise(s, ASE)
    ELSE IF audio_data(s) = NoneArr THEN Raise(s, "TypeError")
    ELSE LET r == audio_data_setter(s, NdArray(2, "float", Scale(audio_data(s), value.v)))
         IN IF r.exc # "none" THEN r ELSE ReturnSelf(r.s)

\* add with new_signal bound to self instead of a deep copy of it
add_in_place(s, other) ==
    IF verify_audio_arithmetic(s, other) # "none"
    THEN Raise(s, verify_audio_arithmetic(s, other))
    ELSE IF audio_data(s) = NoneArr \/ audio_data(other) = NoneArr
         THEN Raise(s, "TypeError")
    ELSE LET r == audio_data_setter(s, NdArray(2, "float",
                                         Plus(audio_data(s), audio_data(other))))
         IN IF r.exc # "none" THEN Raise(s, r.exc) ELSE ReturnSelf(r.s)

\* AudioSignal.add with an AudioSignal operand; new_signal is a deep copy of self
add(s, other) ==
    IF verify_audio_arithmetic(s, other) # "none"
    THEN Raise(s, verify_audio_arithmetic(s, other))
    ELSE IF audio_data(s) = NoneArr \/ audio_data(other) = NoneArr
         THEN Raise(s, "TypeError")
    ELSE LET r == audio_data_setter(s, NdArray(2, "float",
                                         Plus(audio_data(s), audio_data(other))))
         IN IF r.exc # "none" THEN Raise(s, r.exc) ELSE ReturnNew(s, r.s)

\* subtract without the scaling of the copy by -1
subtract_unnegated(s, other) ==
    IF verify_audio_arithmetic(s, other) # "none"
    THEN Raise(s, verify_audio_arithmetic(s, other))
    ELSE add(s, other)

\* AudioSignal.subtract: other is deep-copied, the copy is scaled by -1 in place
\* (__imul__ is apply_gain) and added
subtract(s, other) ==
    IF verify_audio_arithmetic(s, other) # "none"
    THEN Raise(s, verify_audio_arithmetic(s, other))
    ELSE LET g == apply_gain(other, [real |-> TRUE, v |-> -1])
         IN IF g.exc # "none" THEN Raise(s, g.exc) ELSE add(s, g.s)

\* s.add(other) and s.subtract(other) seen from other: add reads
\* other.audio_data, subtract scales a deep copy of other; other itself is
\* not assigned to
add_on_other(s, other) == [add(s, other) EXCEPT !.s = other]
subtract_on_other(s, other) == [subtract(s, other) EXCEPT !.s = other]

\* make_copy_with_stft_data that keeps the sample data in the copy
make_copy_with_stft_data_keeping_audio(s, stft_data, verbose) ==
    LET r1 == stft_data_setter(s, stft_data)
    IN IF verbose /\ (stft_data.kind # "ndarray" \/ s._stft_data = NoneArr)
       THEN Raise(s, "AttributeError")
       ELSE IF r1.exc # "none" THEN Raise(s, r1.exc) ELSE ReturnNew(s, r1.s)

\* AudioSignal.make_copy_with_stft_data.  With verbose, the shapes of the new
\* and of the current array are compared for a warning: .shape of something
\* that is not an array, or of a stft_data of None, is an AttributeError.  The
\* copy is a deep copy, the receiver stays as it is.
make_copy_with_stft_data(s, stft_data, verbose) ==
    LET r1 == stft_data_setter(s, stft_data)
    IN IF verbose /\ (stft_data.kind # "ndarray" \/ s._stft_data = NoneArr)
       THEN Raise(s, "AttributeError")
       ELSE IF r1.exc # "none" THEN Raise(s, r1.exc)
       ELSE LET s2 == [r1.s EXCEPT !.original_signal_length = s.original_signal_length]
                r2 == audio_data_setter(s2, PyNone)
            IN ReturnNew(s, r2.s)

\* AudioSignal.make_copy_with_audio_data
make_copy_with_audio_data(s, data, verbose) ==
    LET r1 == audio_data_setter(s, data)
    IN IF verbose /\ (data.kind # "ndarray" \/ audio_data(s) = NoneArr)
       THEN Raise(s, "AttributeError")
       ELSE IF r1.exc # "none" THEN Raise(s, r1.exc)
       ELSE ReturnNew(s, stft_data_setter(r1.s, PyNone).s)

\* AudioSignal.__mul__: a copy with the scaled samples
__mul__(s, value) ==
    IF ~value.real THEN Raise(s, ASE)
    ELSE IF audio_data(s) = NoneArr THEN Raise(s, "TypeError")
    ELSE make_copy_with_audio_data(
             s, NdArray(2, "float", Scale(audio_data(s), value.v)), FALSE)

\* np.divide(a, float(value)) for a divisor of 0 (every quotient is non-finite)
\* and for the divisors 1 and -1
Divide(a, v) ==
    IF v = 0 THEN [c \in DOMAIN a |-> [i \in DOMAIN a[c] |-> Inf]] ELSE Scale(a, v)

\* AudioSignal.__div__ and __truediv__: a copy with the divided samples
__truediv__(s, value) ==
    IF ~value.real THEN Raise(s, ASE)
    ELSE IF audio_data(s) = NoneArr THEN Raise(s, "TypeError")
    ELSE make_copy_with_audio_data(
             s, NdArray(2, "float", Divide(audio_data(s), value.v)), FALSE)

\* AudioSignal.__imul__
__imul__(s, value) == apply_gain(s, value)

\* AudioSignal.__idiv__ and __itruediv__: apply_gain(1 / float(value)); float()
\* of an operand that is not a real number (a complex number, None, a list) is
\* a TypeError, and 1 / 0.0 a ZeroDivisionError
__itruediv__(s, value) ==
    IF ~value.real THEN Raise(s, "TypeError")
    ELSE IF value.v = 0 THEN Raise(s, "ZeroDivisionError")
    ELSE apply_gain(s, value)

\* the element count of a stored array (0 for None)
ArraySize(field, a) ==
    IF a = NoneArr THEN 0
    ELSE IF field = "_audio_data" THEN NumRows(a) * NumCols(a)
    ELSE Len(a) * Len(a[1]) * Len(a[1][1])

\* the order in which __eq__ walks self.__dict__
FieldOrder ==
    << "path_to_input_file", "_audio_data", "original_signal_length", "_stft_data",
       "_sample_rate", "_active_start", "_active_end", "label", "_stft_params" >>

\* one step of the loop of __eq__ on field k: "next" (go on), "False" (return
\* False) or "ValueError".  An array field is compared with np.array_equal; a
\* field that is None in self is compared with !=, which against an array
\* gives an array whose truth value is an error unless it has one element.
EqStep(s, other, k) ==
    IF k \in {"_audio_data", "_stft_data"} /\ s[k] # NoneArr
    THEN IF s[k] = other[k] THEN "next" ELSE "False"
    ELSE IF k \in {"_audio_data", "_stft_data"} /\ other[k] # NoneArr
         THEN IF ArraySize(k, other[k]) = 1 THEN "False"
              ELSE IF ArraySize(k, other[k]) = 0 THEN "next"
              ELSE "ValueError"
    ELSE IF s[k] # other[k] THEN "False" ELSE "next"

RECURSIVE EqLoop(_, _, _)
EqLoop(s, other, i) ==
    IF i > Len(FieldOrder) THEN "True"
    ELSE IF EqStep(s, other, FieldOrder[i]) = "next" THEN EqLoop(s, other, i + 1)
    ELSE EqStep(s, other, FieldOrder[i])

\* AudioSignal.__eq__
__eq__(s, other) ==
    IF EqLoop(s, other, 1) = "ValueError" THEN Raise(s, "ValueError")
    ELSE ReturnValue(s, Bool(EqLoop(s, other, 1) = "True"))

\* AudioSignal.__ne__
__ne__(s, other) ==
    IF __eq__(s, other).exc # "none" THEN __eq__(s, other)
    ELSE ReturnValue(s, Bool(~__eq__(s, other).val.bool))

\* ------------------------------------------------------------------- masking
\* shape of a stored 3-D STFT array
StftShape(a) == <<Len(a), Len(a[1]), Len(a[1][1])>>

\* elementwise product of two 3-D arrays of the same shape
Multiply3(a, m) ==
    [f \in 1..Len(a) |-> [t \in 1..Len(a[f]) |-> [c \in 1..Len(a[f][t]) |->
        CScale(a[f][t][c], m[f][t][c])]]]

\* can numpy broadcast a 3-D array of shape sh against a 4-D array of shape msh
\* (shapes are aligned at their last axes)
Broadcastable4(sh, msh) ==
    \A i \in 1..3 : sh[i] = msh[i + 1] \/ sh[i] = 1 \/ msh[i + 1] = 1

\* AudioSignal.apply_mask.  mask: [isMaskBase, shape |-> mask.shape, mask |-> the
\* array mask.mask (kept for 3-D masks only)]
apply_mask(s, mask, overwrite) ==
    IF ~mask.isMaskBase THEN Raise(s, ASE)
    ELSE IF s._stft_data = NoneArr THEN Raise(s, ASE)
    ELSE IF mask.shape # StftShape(s._stft_data)
            /\ SubSeq(mask.shape, 1, Len(mask.shape) - 1) # StftShape(s._stft_data)
         THEN Raise(s, ASE)
    ELSE IF mask.shape # StftShape(s._stft_data)
         \* a 4-D mask whose leading axes match: the product raises when the shapes
         \* do not broadcast, and is 4-D and refused by the stft_data setter otherwise
         THEN IF Broadcastable4(StftShape(s._stft_data), mask.shape)
              THEN Raise(s, ASE) ELSE Raise(s, "ValueError")
    ELSE LET masked_stft == NdArray(3, "complex", Multiply3(s._stft_data, mask.mask))
         IN IF overwrite THEN stft_data_setter(s, masked_stft)
            ELSE make_copy_with_stft_data(s, masked_stft, FALSE)

\* -------------------------------------------------------------- construction
\* what librosa.load returns for the one audio file of the model
FILE_SAMPLE_RATE == 125
FileAudio == NdArray(2, "float", <<[i \in 1..MaxLen |-> 10 * i]>>)

\* AudioSignal.load_audio_from_file(path, new_sample_rate=None)
load_audio_from_file(s, input_file_path) ==
    LET r == audio_data_setter([s EXCEPT !._sample_rate = FILE_SAMPLE_RATE], FileAudio)
        s2 == [r.s EXCEPT !.original_signal_length = signal_length(r.s)]
    IN Ok(set_active_region_to_default([s2 EXCEPT !.path_to_input_file = input_file_path]))

\* __init__ without the test for more than one source
init_any_sources(path_to_input_file, audio_data_array, stft, sample_rate, stft_params) ==
    LET s0 == [BlankSignal EXCEPT !.path_to_input_file = path_to_input_file]
        given == (IF path_to_input_file # "None" THEN 1 ELSE 0)
                 + (IF audio_data_array.kind # "None" THEN 1 ELSE 0)
                 + (IF stft.kind # "None" THEN 1 ELSE 0)
        r1 == IF path_to_input_file # "None" THEN load_audio_from_file(s0, path_to_input_file)
              ELSE IF audio_data_array.kind # "None"
                   THEN load_audio_from_array(s0, audio_data_array, sample_rate)
              ELSE Ok(s0)
        s2 == IF r1.s._sample_rate = None
              THEN [r1.s EXCEPT !._sample_rate =
                       IF sample_rate = None THEN DEFAULT_SAMPLE_RATE ELSE sample_rate]
              ELSE r1.s
        r3 == stft_data_setter(s2, stft)
    IN IF r1.exc # "none" THEN r1
       ELSE IF r3.exc # "none" THEN r3
       ELSE stft_params_setter(r3.s, stft_params)

\* AudioSignal.__init__(path_to_input_file, audio_data_array, stft, sample_rate,
\* stft_params)
init(path_to_input_file, audio_data_array, stft, sample_rate, stft_params) ==
    LET s0 == [BlankSignal EXCEPT !.path_to_input_file = path_to_input_file]
        given == (IF path_to_input_file # "None" THEN 1 ELSE 0)
                 + (IF audio_data_array.kind # "None" THEN 1 ELSE 0)
                 + (IF stft.kind # "None" THEN 1 ELSE 0)
        r1 == IF path_to_input_file # "None" THEN load_audio_from_file(s0, path_to_input_file)
              ELSE IF audio_data_array.kind # "None"
                   THEN load_audio_from_array(s0, audio_data_array, sample_rate)
              ELSE Ok(s0)
        s2 == IF r1.s._sample_rate = None
              THEN [r1.s EXCEPT !._sample_rate =
                       IF sample_rate = None THEN DEFAULT_SAMPLE_RATE ELSE sample_rate]
              ELSE r1.s
        r3 == stft_data_setter(s2, stft)
    IN IF given > 1 THEN Raise(s0, ASE)
       ELSE IF r1.exc # "none" THEN r1
       ELSE IF r3.exc # "none" THEN r3
       ELSE stft_params_setter(r3.s, stft_params)

\* -------------------------------------------------------- channel utilities
\* AudioSignal._verify_get_channel: the exception it raises, if any (the
\* comparison with a num_channels of None raises a TypeError)
_verify_get_channel(s, n) ==
    IF num_channels(s) = None THEN "TypeError"
    ELSE IF n >= num_channels(s) THEN ASE
    ELSE IF n < 0 THEN ASE
    ELSE "none"

\* utils._get_axis(array, axis, i): the i-th (0-based) slice of the array along
\* an axis, for the channel axis of a 2-D sample array and of a 3-D STFT array;
\* None has no such axis, and an index past the axis is an IndexError
_get_axis(array, ndim, i) ==
    IF array = NoneArr THEN [exc |-> "IndexError", v |-> <<>>]
    ELSE IF ndim = 2
         THEN IF i >= NumRows(array) THEN [exc |-> "IndexError", v |-> <<>>]
              ELSE [exc |-> "none", v |-> array[i + 1]]
    ELSE IF i >= Len(array[1][1]) THEN [exc |-> "IndexError", v |-> <<>>]
         ELSE [exc |-> "none",
               v |-> [f \in 1..Len(array) |-> [t \in 1..Len(array[f]) |-> array[f][t][i + 1]]]]

\* AudioSignal.get_channel
get_channel(s, n) ==
    IF _verify_get_channel(s, n) # "none" THEN Raise(s, _verify_get_channel(s, n))
    ELSE LET chan == _get_axis(audio_data(s), 2, n)
         IN IF chan.exc # "none" THEN Raise(s, chan.exc) ELSE ReturnValue(s, Real1(chan.v))

\* AudioSignal.get_channels: the outcomes of the calls the generator makes
get_channels(s) ==
    [i \in 1..(IF num_channels(s) = None THEN 0 ELSE num_channels(s)) |->
        get_channel(s, i - 1)]

\* list(self.get_channels()): range(self.num_channels) is a TypeError when
\* num_channels is None, and the first call that raises ends the iteration
list_get_channels(s) ==
    LET outcomes == get_channels(s)
        failed == {i \in DOMAIN outcomes : outcomes[i].exc # "none"}
    IN IF num_channels(s) = None THEN Raise(s, "TypeError")
       ELSE IF failed # {}
            THEN Raise(s, outcomes[CHOOSE i \in failed : \A j \in failed : i <= j].exc)
       ELSE ReturnValue(s, Real1s([i \in DOMAIN outcomes |-> outcomes[i].val.r1]))

\* AudioSignal.get_stft_channel
get_stft_channel(s, n) ==
    IF s._stft_data = NoneArr THEN Raise(s, ASE)
    ELSE IF _verify_get_channel(s, n) # "none" THEN Raise(s, _verify_get_channel(s, n))
    ELSE LET chan == _get_axis(s._stft_data, 3, n)
         IN IF chan.exc # "none" THEN Raise(s, chan.exc) ELSE ReturnValue(s, Complex2(chan.v))

\* AudioSignal.get_stft_channels: the outcomes of the calls the generator makes
get_stft_channels(s) ==
    [i \in 1..(IF num_channels(s) = None THEN 0 ELSE num_channels(s)) |->
        get_stft_channel(s, i - 1)]

\* list(self.get_stft_channels())
list_get_stft_channels(s) ==
    LET outcomes == get_stft_channels(s)
        failed == {i \in DOMAIN outcomes : outcomes[i].exc # "none"}
    IN IF num_channels(s) = None THEN Raise(s, "TypeError")
       ELSE IF failed # {}
            THEN Raise(s, outcomes[CHOOSE i \in failed : \A j \in failed : i <= j].exc)
       ELSE ReturnValue(s, Complex2s([i \in DOMAIN outcomes |-> outcomes[i].val.c2]))

\* ------------------------------------------------------------ the transforms
\* The transform kernel is scipy.signal.stft / istft with a window array,
\* boundary='zeros' and padded=True.  Windows are kept as twice their samples
\* (WindowX2), and a spectral coefficient of the model is the kernel's
\* coefficient times the sum of WindowX2: the kernel's division by the window
\* sum in stft and its multiplication by it in istft are both left out, so
\* that every coefficient is a pair of integers.  The window lengths that fit
\* the signals of the model are 2 and 4.
RECURSIVE SumSeq(_)
SumSeq(q) == IF q = <<>> THEN 0 ELSE Head(q) + SumSeq(Tail(q))

Zeros(n) == [i \in 1..n |-> 0]

\* numpy.fft.rfft of a frame of 2 or 4 real samples
Rfft(y) ==
    CASE Len(y) = 2 -> <<Complex(y[1] + y[2], 0), Complex(y[1] - y[2], 0)>>
      [] Len(y) = 4 -> <<Complex(y[1] + y[2] + y[3] + y[4], 0),
                         Complex(y[1] - y[3], y[4] - y[2]),
                         Complex(y[1] - y[2] + y[3] - y[4], 0)>>

\* nfft * numpy.fft.irfft(z, n=nfft) for nfft = 2 * (Len(z) - 1) in {2, 4}; the
\* imaginary parts of the first and the last coefficient are discarded
IrfftTimesN(z) ==
    CASE Len(z) = 2 -> <<z[1][1] + z[2][1], z[1][1] - z[2][1]>>
      [] Len(z) = 3 -> <<z[1][1] + 2 * z[2][1] + z[3][1],
                         z[1][1] - 2 * z[2][2] - z[3][1],
                         z[1][1] - 2 * z[2][1] + z[3][1],
                         z[1][1] + 2 * z[2][2] - z[3][1]>>

\* AudioSignal.get_window: the window array (its length, twice its samples), or
\* the ValueError of scipy.signal.get_window for an unknown type or a negative
\* length.  The square-root Hann window has irrational samples: the model
\* gives it the samples of the Hann window (same length, same zeros).
get_window(window_type, window_length) ==
    LET base == IF window_type = "sqrt_hann" THEN "hann" ELSE window_type
    IN IF base \notin KnownWindows \/ window_length < 0
       THEN [exc |-> "ValueError", len |-> 0, x2 |-> <<>>]
       ELSE [exc |-> "none", len |-> window_length, x2 |-> WindowX2(base, window_length)]

\* scipy.signal.stft(x, window=window, nperseg=nperseg, noverlap=noverlap) of a
\* 1-D signal x: Zxx[f][t], or the ValueError it raises
scipy_stft(x, window, nperseg, noverlap) ==
    IF nperseg < 1 \/ Len(x) < window.len \/ noverlap >= nperseg
    THEN [exc |-> "ValueError", Zxx |-> <<>>]
    ELSE LET nstep == nperseg - noverlap
             ext == Zeros(nperseg \div 2) \o x \o Zeros(nperseg \div 2)
             nadd == ((nstep - ((Len(ext) - nperseg) % nstep)) % nstep) % nperseg
             xp == ext \o Zeros(nadd)
             nseg == (Len(xp) - nperseg) \div nstep + 1
             frame(t) == [k \in 1..nperseg |-> xp[(t - 1) * nstep + k] * window.x2[k]]
         IN [exc |-> "none",
             Zxx |-> [f \in 1..(nperseg \div 2 + 1) |->
                        [t \in 1..nseg |-> Rfft(frame(t))[f]]]]

\* scipy_istft without the division by the overlap-added squared window
scipy_istft_unnormalized(Zxx, window, nperseg, noverlap) ==
    LET nseg == Len(Zxx[1])
        nfft == 2 * (Len(Zxx) - 1)
        nstep == nperseg - noverlap
        outputlength == nperseg + (nseg - 1) * nstep
        half == nperseg \div 2
        xsubs(t) == IrfftTimesN([f \in 1..Len(Zxx) |-> Zxx[f][t]])
        k(p, t) == p - (t - 1) * nstep
        covers(p, t) == 1 <= k(p, t) /\ k(p, t) <= nperseg
        x(p) == SumSeq([t \in 1..nseg |->
                   IF covers(p, t) THEN xsubs(t)[k(p, t)] * window.x2[k(p, t)] ELSE 0])
        norm(p) == SumSeq([t \in 1..nseg |->
                      IF covers(p, t) THEN window.x2[k(p, t)] * window.x2[k(p, t)] ELSE 0])
    IN IF nperseg < 1 \/ noverlap >= nperseg \/ nfft < nperseg
       THEN [exc |-> "ValueError", x |-> <<>>]
       ELSE [exc |-> "none",
             x |-> [p \in 1..(outputlength - 2 * half) |->
                      IF norm(p + half) = 0 THEN 0
                      ELSE x(p + half) \div nfft]]

\* scipy.signal.istft(Zxx, window=window, nperseg=nperseg, noverlap=noverlap) of
\* one channel Zxx[f][t]: the overlap-added frames divided by the overlap-added
\* squared window where that is not zero, without the nperseg // 2 boundary
\* samples at either end.  A quotient that is not an integer is rounded down.
scipy_istft(Zxx, window, nperseg, noverlap) ==
    LET nseg == Len(Zxx[1])
        nfft == 2 * (Len(Zxx) - 1)
        nstep == nperseg - noverlap
        outputlength == nperseg + (nseg - 1) * nstep
        half == nperseg \div 2
        xsubs(t) == IrfftTimesN([f \in 1..Len(Zxx) |-> Zxx[f][t]])
        k(p, t) == p - (t - 1) * nstep
        covers(p, t) == 1 <= k(p, t) /\ k(p, t) <= nperseg
        x(p) == SumSeq([t \in 1..nseg |->
                   IF covers(p, t) THEN xsubs(t)[k(p, t)] * window.x2[k(p, t)] ELSE 0])
        norm(p) == SumSeq([t \in 1..nseg |->
                      IF covers(p, t) THEN window.x2[k(p, t)] * window.x2[k(p, t)] ELSE 0])
    IN IF nperseg < 1 \/ noverlap >= nperseg \/ nfft < nperseg
       THEN [exc |-> "ValueError", x |-> <<>>]
       ELSE [exc |-> "none",
             x |-> [p \in 1..(outputlength - 2 * half) |->
                      IF norm(p + half) = 0 THEN 0
                      ELSE x(p + half) \div (nfft * norm(p + half))]]

\* the argument of stft / istft, or the stored parameter when it is None
ArgOr(arg, stored, none) == IF arg = none THEN stored ELSE arg

\* stft_data.size
StftSize(a) == StftShape(a)[1] * StftShape(a)[2] * StftShape(a)[3]

\* stft without its test of overwrite: the result is always stored
stft_always_storing(s, window_length, hop_length, window_type, overwrite) ==
    IF audio_data(s) = NoneArr \/ NumRows(audio_data(s)) * NumCols(audio_data(s)) = 0
    THEN Raise(s, ASE)
    ELSE LET wl == ArgOr(window_length, s._stft_params.window_length, None)
             hop == ArgOr(hop_length, s._stft_params.hop_length, None)
             wt == ArgOr(window_type, s._stft_params.window_type, "None")
             window == get_window(wt, wl)
             chans == get_channels(s)
             Z(c) == scipy_stft(chans[c].val.r1, window, wl, wl - hop)
         IN IF window.exc # "none" THEN Raise(s, window.exc)
            ELSE IF Z(1).exc # "none" THEN Raise(s, Z(1).exc)
            ELSE LET stft_data ==
                         [f \in 1..Len(Z(1).Zxx) |-> [t \in 1..Len(Z(1).Zxx[1]) |->
                             [c \in 1..Len(chans) |-> Z(c).Zxx[f][t]]]]
                     r == stft_data_setter(s, NdArray(3, "complex", stft_data))
                 IN ReturnValue(r.s, Complex3(stft_data))

\* AudioSignal.stft(window_length, hop_length, window_type, overwrite)
stft(s, window_length, hop_length, window_type, overwrite) ==
    IF audio_data(s) = NoneArr \/ NumRows(audio_data(s)) * NumCols(audio_data(s)) = 0
    THEN Raise(s, ASE)
    ELSE LET wl == ArgOr(window_length, s._stft_params.window_length, None)
             hop == ArgOr(hop_length, s._stft_params.hop_length, None)
             wt == ArgOr(window_type, s._stft_params.window_type, "None")
             window == get_window(wt, wl)
             chans == get_channels(s)
             Z(c) == scipy_stft(chans[c].val.r1, window, wl, wl - hop)
         IN IF window.exc # "none" THEN Raise(s, window.exc)
            ELSE IF Z(1).exc # "none" THEN Raise(s, Z(1).exc)
            ELSE LET stft_data ==
                         [f \in 1..Len(Z(1).Zxx) |-> [t \in 1..Len(Z(1).Zxx[1]) |->
                             [c \in 1..Len(chans) |-> Z(c).Zxx[f][t]]]]
                     r == stft_data_setter(s, NdArray(3, "complex", stft_data))
                 IN IF overwrite THEN ReturnValue(r.s, Complex3(stft_data))
                    ELSE ReturnValue(s, Complex3(stft_data))

\* istft without the truncation of its result
istft_untruncated(s, window_length, hop_length, window_type, overwrite, truncate_to_length) ==
    IF s._stft_data = NoneArr \/ StftSize(s._stft_data) = 0 THEN Raise(s, ASE)
    ELSE LET wl == ArgOr(window_length, s._stft_params.window_length, None)
             hop == ArgOr(hop_length, s._stft_params.hop_length, None)
             wt == ArgOr(window_type, s._stft_params.window_type, "None")
             window == get_window(wt, wl)
             chans == get_stft_channels(s)
             first == scipy_istft(_get_axis(s._stft_data, 3, 0).v, window, wl, wl - hop)
             failed == {c \in 1..Len(chans) : chans[c].exc # "none"}
         IN IF window.exc # "none" THEN Raise(s, window.exc)
            ELSE IF Len(chans) > 0 /\ first.exc # "none" THEN Raise(s, first.exc)
            ELSE IF failed # {}
                 THEN Raise(s, chans[CHOOSE c \in failed : \A d \in failed : c <= d].exc)
            ELSE LET signals == [c \in 1..Len(chans) |->
                                    scipy_istft(chans[c].val.c2, window, wl, wl - hop).x]
                     calculated_signal == IF Len(chans) = 0 THEN ZeroRows(1) ELSE signals
                     default_length == IF signal_length(s) # None THEN signal_length(s)
                                       ELSE s.original_signal_length
                     length == ArgOr(truncate_to_length, default_length, None)
                     truncated == calculated_signal
                     r == audio_data_setter(s, NdArray(2, "float", truncated))
                 IN IF overwrite \/ audio_data(s) = NoneArr
                    THEN IF r.exc # "none" THEN r ELSE ReturnValue(r.s, Real2(truncated))
                    ELSE ReturnValue(s, Real2(truncated))

\* AudioSignal.istft(window_length, hop_length, window_type, overwrite,
\* truncate_to_length)
istft(s, window_length, hop_length, window_type, overwrite, truncate_to_length) ==
    IF s._stft_data = NoneArr \/ StftSize(s._stft_data) = 0 THEN Raise(s, ASE)
    ELSE LET wl == ArgOr(window_length, s._stft_params.window_length, None)
             hop == ArgOr(hop_length, s._stft_params.hop_length, None)
             wt == ArgOr(window_type, s._stft_params.window_type, "None")
             window == get_window(wt, wl)
             chans == get_stft_channels(s)
             first == scipy_istft(_get_axis(s._stft_data, 3, 0).v, window, wl, wl - hop)
             failed == {c \in 1..Len(chans) : chans[c].exc # "none"}
         IN IF window.exc # "none" THEN Raise(s, window.exc)
            ELSE IF Len(chans) > 0 /\ first.exc # "none" THEN Raise(s, first.exc)
            ELSE IF failed # {}
                 THEN Raise(s, chans[CHOOSE c \in failed : \A d \in failed : c <= d].exc)
            ELSE LET signals == [c \in 1..Len(chans) |->
                                    scipy_istft(chans[c].val.c2, window, wl, wl - hop).x]
                     calculated_signal == IF Len(chans) = 0 THEN ZeroRows(1) ELSE signals
                     default_length == IF signal_length(s) # None THEN signal_length(s)
                                       ELSE s.original_signal_length
                     length == ArgOr(truncate_to_length, default_length, None)
                     truncated == IF length # None /\ length > 0
                                  THEN Cols(calculated_signal, 0, length)
                                  ELSE calculated_signal
                     r == audio_data_setter(s, NdArray(2, "float", truncated))
                 IN IF overwrite \/ audio_data(s) = NoneArr
                    THEN IF r.exc # "none" THEN r ELSE ReturnValue(r.s, Real2(truncated))
                    ELSE ReturnValue(s, Real2(truncated))

\* ------------------------------------------------------- resample and to_mono
\* librosa.resample(channel, orig_sr, target_sr): ceil(n * target_sr / orig_sr)
\* samples; the model gives output sample i the input sample at the same time
\* (the values librosa interpolates are finite numbers of the same range)
librosa_resample(channel, orig_sr, target_sr) ==
    [i \in 1..((Len(channel) * target_sr + orig_sr - 1) \div orig_sr) |->
        channel[((i - 1) * orig_sr) \div target_sr + 1]]

\* np.array(resampled_signal) for the list of the resampled channels; of an
\* empty list it is an empty 1-D array
ResampledArray(channels, orig_sr, target_sr) ==
    IF channels = <<>> THEN NdArray(1, "float", <<>>)
    ELSE NdArray(2, "float",
                 [c \in DOMAIN channels |-> librosa_resample(channels[c], orig_sr, target_sr)])

\* resample without the assignment of the new rate
resample_keeping_rate(s, new_sample_rate) ==
    IF new_sample_rate = s._sample_rate THEN Ok(s)
    ELSE LET chans == list_get_channels(s)
             r == CHOOSE o \in {audio_data_setter(s, value) : value \in
                      {ResampledArray(channels, s._sample_rate, new_sample_rate) :
                          channels \in {chans.val.r1s}}} : TRUE
         IN IF chans.exc # "none" THEN Raise(s, chans.exc)
            ELSE IF r.exc # "none" THEN r
            ELSE Ok(r.s)

\* AudioSignal.resample(new_sample_rate)
resample(s, new_sample_rate) ==
    IF new_sample_rate = s._sample_rate THEN Ok(s)
    ELSE LET chans == list_get_channels(s)
             r == CHOOSE o \in {audio_data_setter(s, value) : value \in
                      {ResampledArray(channels, s._sample_rate, new_sample_rate) :
                          channels \in {chans.val.r1s}}} : TRUE
         IN IF chans.exc # "none" THEN Raise(s, chans.exc)
            ELSE IF r.exc # "none" THEN r
            ELSE Ok([r.s EXCEPT !._sample_rate = new_sample_rate])

\* np.mean(a, axis=CHAN_INDEX) of a 2-D array with at least one row (the mean
\* of integer samples is rounded down)
Mean(a) ==
    [i \in 1..NumCols(a) |-> SumSeq([c \in 1..Len(a) |-> a[c][i]]) \div Len(a)]

\* AudioSignal.to_mono(overwrite, keep_dims): the mean over no channels is
\* not a number, and np.mean of None has no axis 0
to_mono(s, overwrite, keep_dims) ==
    IF audio_data(s) = NoneArr THEN Raise(s, "AxisError")
    ELSE LET a == audio_data(s)
             mono == IF NumRows(a) = 0 THEN [i \in 1..NumCols(a) |-> Inf] ELSE Mean(a)
             value == IF keep_dims THEN NdArray(2, "float", <<mono>>)
                      ELSE NdArray(1, "float", mono)
             r == audio_data_setter(s, value)
             returned == IF keep_dims THEN Real2(<<mono>>) ELSE Real1(mono)
         IN IF ~overwrite THEN ReturnValue(s, returned)
            ELSE IF r.exc # "none" THEN r
            ELSE ReturnValue(r.s, returned)

\* ------------------------------------------------------------------- inputs
Ramp(chans, len) == [c \in 1..chans |-> [i \in 1..len |-> (c - 1) * len + i]]

\* the values assigned to audio_data or handed to load_audio_from_array
AudioInputs ==
    << NdArray(2, "float", Ramp(1, MaxLen)),
       NdArray(2, "float", Ramp(2, MaxLen)),
       NdArray(2, "float", Ramp(MaxLen, 2)),
       NdArray(1, "float", [i \in 1..(MaxLen - 1) |-> i]),
       NdArray(1, "int", <<0, -INT16_SCALE>>),
       NdArray(3, "float", <<<<<<1>>>>>>),
       NdArray(2, "float", <<<<1, Inf>>>>),
       PyNone,
       PyList,
       NdArray(1, "float", <<>>) >>

StftRamp(F, T, C) ==
    [f \in 1..F |-> [t \in 1..T |-> [c \in 1..C |->
        Complex(((f - 1) * T + (t - 1)) * C + c, f - t)]]]

\* the values assigned to stft_data
StftInputs ==
    << NdArray(3, "complex", StftRamp(2, 2, 2)),
       NdArray(3, "complex", StftRamp(2, 2, 1)),
       NdArray(2, "complex", <<<<Complex(1, 0), Complex(2, 1)>>,
                               <<Complex(3, -1), Complex(4, 0)>>>>),
       NdArray(1, "complex", <<Complex(1, 0), Complex(2, 0)>>),
       NdArray(4, "complex", <<>>),
       PyNone,
       PyList,
       NdArray(3, "complex", StftRamp(2, 2, 0)) >>

\* an STFT of one channel whose inverse transform (window 2, hop 1) is longer
\* than every sample array of the model
LongStft == NdArray(3, "complex", StftRamp(2, MaxLen + 2, 1))

ParamsNone == [kind |-> "None", params |-> STFTParams(None, None, "None")]
Params(wl, hop, wt) == [kind |-> "STFTParams", params |-> STFTParams(wl, hop, wt)]

\* the values assigned to stft_params
ParamInputs ==
    << ParamsNone,
       Params(None, None, "None"),
       Params(4, 1, "hann"),
       Params(4, 2, "sqrt_hann"),
       Params(4, 3, "hann"),
       Params(4, 4, "hann"),
       Params(2, None, "boxcar"),
       Params(4, 2, "bogus"),
       [kind |-> "other", params |-> STFTParams(None, None, "None")] >>

MaskPattern(F, T, C) == [f \in 1..F |-> [t \in 1..T |-> [c \in 1..C |-> (f + t + c) % 2]]]
Mask(shape) ==
    [isMaskBase |-> TRUE, shape |-> shape,
     mask |-> IF Len(shape) = 3 THEN MaskPattern(shape[1], shape[2], shape[3]) ELSE <<>>]

\* the masks handed to apply_mask
MaskInputs ==
    << Mask(<<2, 2, 2>>),
       Mask(<<2, 2, 1>>),
       Mask(<<2, 2>>),
       Mask(<<2, 2, 3>>),
       Mask(<<2, 2, 2, 2>>),
       Mask(<<2, 2, 2, 3>>),
       [isMaskBase |-> FALSE, shape |-> <<2, 2, 2>>, mask |-> <<>>] >>

\* the gains handed to apply_gain
GainInputs ==
    << [real |-> TRUE, v |-> 2], [real |-> TRUE, v |-> -1], [real |-> TRUE, v |-> Inf],
       [real |-> FALSE, v |-> 0] >>

SampleRates == {None, FILE_SAMPLE_RATE}

\* the (window_length, hop_length, window_type) arguments of stft and istft:
\* all left out, or all given
TransformArgs ==
    << STFTParams(None, None, "None"),
       STFTParams(2, 1, "hann") >>

\* the channel indices handed to get_channel and get_stft_channel
ChannelArgs == -1..2

\* the divisors of the / and /= operators
DivisorInputs ==
    << [real |-> TRUE, v |-> -1], [real |-> TRUE, v |-> 0], [real |-> FALSE, v |-> 0] >>

\* the arrays handed to make_copy_with_audio_data and make_copy_with_stft_data
\* (indices of AudioInputs and of StftInputs)
CopyAudioArgs == {1, 3, 7, 8}
CopyStftArgs == {1, 2, 6}

\* an AudioSignal built from a sample array, with an active region set
Other(audio, sample_rate, start, end) ==
    set_active_region(init("None", audio, PyNone, sample_rate, ParamsNone).s, start, end).s

\* the second operands of concat, add and subtract
OtherSignals ==
    << Other(AudioInputs[1], None, 0, MaxLen),
       Other(AudioInputs[2], None, 0, MaxLen),
       Other(AudioInputs[1], None, 0, MaxLen - 1),
       Other(AudioInputs[1], None, 1, MaxLen),
       Other(AudioInputs[4], None, 0, MaxLen),
       Other(AudioInputs[1], FILE_SAMPLE_RATE, 0, MaxLen) >>

\* the right operands of == and !=
EqOperands ==
    << init("None", AudioInputs[1], PyNone, None, ParamsNone).s,
       init("None", PyNone, PyNone, None, ParamsNone).s,
       init("None", AudioInputs[2], PyNone, None, ParamsNone).s,
       init("None", PyNone, StftInputs[1], None, ParamsNone).s,
       [init("None", AudioInputs[1], PyNone, None, ParamsNone).s EXCEPT !.label = "other"],
       init("None", NdArray(2, "float", <<<<1>>>>), PyNone, None, ParamsNone).s >>

\* ------------------------------------------------------------------- state
VARIABLES
    self,   \* the AudioSignal object
    pre,    \* the object as it was before the last call
    call,   \* the last call: its name, its arguments, the exception it raised
    ret,    \* the AudioSignal the last call returned (when call.ret = "new")
    val,    \* the array or boolean the last call returned (when call.ret = "value")
    nops    \* number of calls made

vars == <<self, pre, call, ret, val, nops>>

Init ==
    /\ \E src \in {"none", "file", "audio", "stft"} :
       \E i \in DOMAIN AudioInputs, j \in DOMAIN StftInputs :
       \E sample_rate \in SampleRates, p \in {1, 3} :
       \E audio_data_array \in {IF src = "audio" THEN AudioInputs[i] ELSE PyNone} :
       \E stft_array \in {IF src = "stft" THEN StftInputs[j] ELSE PyNone} :
       \E stft_params \in {ParamInputs[p]} :
       \E r \in {init(IF src = "file" THEN "file.wav" ELSE "None",
                      audio_data_array, stft_array, sample_rate, stft_params)} :
          /\ src # "none" => (sample_rate = None /\ p = 1)
          /\ r.exc = "none"
          /\ self = r.s
    /\ pre = self
    /\ call = [op |-> "__init__", a |-> 0, b |-> 0, c |-> 0, exc |-> "none", ret |-> "None"]
    /\ ret = BlankSignal
    /\ val = NoValue
    /\ nops = 0

\* one call of a public operation with arguments a, b, c and outcome r
Do3(op, a, b, c, r) ==
    /\ nops < MaxOps
    /\ nops' = nops + 1
    /\ pre' = self
    /\ self' = r.s
    /\ call' = [op |-> op, a |-> a, b |-> b, c |-> c, exc |-> r.exc, ret |-> r.kind]
    /\ ret' = r.ret
    /\ val' = r.val

\* one call with at most two arguments
Do(op, a, b, r) == Do3(op, a, b, 0, r)

RegionArgs == -1..(MaxLen + 1)

\* the argument pairs of set_active_region: every start <= end, and the pairs
\* with the end one sample before the start
RegionPairs == {p \in RegionArgs \X RegionArgs : p[1] <= p[2] \/ p[2] = p[1] - 1}

AssignAudioData == \E i \in DOMAIN AudioInputs : \E value \in {AudioInputs[i]} :
    Do("audio_data", i, 0, audio_data_setter(self, value))

AssignStftData == \E i \in DOMAIN StftInputs : \E value \in {StftInputs[i]} :
    Do("stft_data", i, 0, stft_data_setter(self, value))

AssignStftParams == \E i \in DOMAIN ParamInputs : \E value \in {ParamInputs[i]} :
    Do("stft_params", i, 0, stft_params_setter(self, value))

LoadAudioFromArray == \E i \in DOMAIN AudioInputs, sample_rate \in SampleRates :
                      \E signal \in {AudioInputs[i]} :
    /\ i # 1 => sample_rate = None
    /\ Do("load_audio_from_array", i, sample_rate,
          load_audio_from_array(self, signal, sample_rate))

SetActiveRegion == \E p \in RegionPairs :
    Do("set_active_region", p[1], p[2], set_active_region(self, p[1], p[2]))

SetActiveRegionToDefault ==
    Do("set_active_region_to_default", 0, 0, Ok(set_active_region_to_default(self)))

TruncateSamples == \E n \in RegionArgs :
    Do("truncate_samples", n, 0, truncate_samples(self, n))

TruncateSeconds == \E n_ms \in {0, 8, 16} :
    Do("truncate_seconds", n_ms, 0, truncate_seconds(self, n_ms))

CropSignal == \E before \in 0..1, after \in 0..2 :
    Do("crop_signal", before, after, crop_signal(self, before, after))

ZeroPad == \E before \in 0..1, after \in 0..1 :
    /\ self._audio_data # NoneArr =>
          NumCols(audio_data(self)) + before + after <= MaxLen + 1
    /\ Do("zero_pad", before, after, zero_pad(self, before, after))

Concat == \E i \in DOMAIN OtherSignals : \E other \in {OtherSignals[i]} :
    /\ self._audio_data # NoneArr =>
          NumCols(audio_data(self)) + NumCols(audio_data(other)) <= 2 * MaxLen
    /\ Do("concat", i, 0, concat(self, other))

Add == \E i \in DOMAIN OtherSignals : \E other \in {OtherSignals[i]} :
    Do("add", i, 0, add(self, other))

AddInt ==
    Do("add", 0, 0, ReturnSelf(self))

Subtract == \E i \in DOMAIN OtherSignals : \E other \in {OtherSignals[i]} :
    Do("subtract", i, 0, subtract(self, other))

ApplyGain == \E i \in DOMAIN GainInputs : \E value \in {GainInputs[i]} :
    Do("apply_gain", i, 0, apply_gain(self, value))

ApplyMask == \E i \in DOMAIN MaskInputs, overwrite \in BOOLEAN :
             \E mask \in {MaskInputs[i]} :
    Do("apply_mask", i, IF overwrite THEN 1 ELSE 0, apply_mask(self, mask, overwrite))

Stft == \E i \in DOMAIN TransformArgs, overwrite \in BOOLEAN :
        \E args \in {TransformArgs[i]} :
    Do("stft", i, IF overwrite THEN 1 ELSE 0,
       stft(self, args.window_length, args.hop_length, args.window_type, overwrite))

Istft == \E i \in DOMAIN TransformArgs, overwrite \in BOOLEAN :
         \E truncate_to_length \in {None, 0, 1}, args \in {TransformArgs[i]} :
    Do3("istft", i, IF overwrite THEN 1 ELSE 0, truncate_to_length,
       istft(self, args.window_length, args.hop_length, args.window_type,
             overwrite, truncate_to_length))

AssignLongStftData == \E value \in {LongStft} :
    Do("stft_data", 0, 0, stft_data_setter(self, value))

\* a = a.make_copy_with_stft_data(stft_data, verbose=False): the name is bound
\* to the copy
ReplaceByCopyWithStftData == \E stft_data \in {LongStft} :
                             \E r \in {make_copy_with_stft_data(self, stft_data, FALSE)} :
    Do("a = make_copy_with_stft_data", 0, 0,
       IF r.exc # "none" THEN Raise(self, r.exc) ELSE Ok(r.ret))

GetChannel == \E n \in ChannelArgs :
    Do("get_channel", n, 0, get_channel(self, n))

GetStftChannel == \E n \in ChannelArgs :
    Do("get_stft_channel", n, 0, get_stft_channel(self, n))

GetChannels ==
    Do("get_channels", 0, 0, list_get_channels(self))

GetStftChannels ==
    Do("get_stft_channels", 0, 0, list_get_stft_channels(self))

Next ==
    \/ AssignAudioData
    \/ AssignStftData
    \/ AssignStftParams
    \/ LoadAudioFromArray
    \/ SetActiveRegion
    \/ SetActiveRegionToDefault
    \/ TruncateSamples
    \/ TruncateSeconds
    \/ CropSignal
    \/ ZeroPad
    \/ Concat
    \/ Add
    \/ AddInt
    \/ Subtract
    \/ ApplyGain
    \/ ApplyMask

Spec == Init /\ [][Next]_vars

Mul == \E i \in DOMAIN GainInputs : \E value \in {GainInputs[i]} :
    Do("__mul__", i, 0, __mul__(self, value))

TrueDiv == \E i \in DOMAIN DivisorInputs : \E value \in {DivisorInputs[i]} :
    Do("__truediv__", i, 0, __truediv__(self, value))

IMul == \E i \in DOMAIN GainInputs : \E value \in {GainInputs[i]} :
    Do("__imul__", i, 0, __imul__(self, value))

ITrueDiv == \E i \in DOMAIN DivisorInputs : \E value \in {DivisorInputs[i]} :
    Do("__itruediv__", i, 0, __itruediv__(self, value))

MakeCopyWithAudioData == \E i \in CopyAudioArgs, verbose \in BOOLEAN :
                         \E data \in {AudioInputs[i]} :
    Do("make_copy_with_audio_data", i, IF verbose THEN 1 ELSE 0,
       make_copy_with_audio_data(self, data, verbose))

MakeCopyWithStftData == \E i \in CopyStftArgs, verbose \in BOOLEAN :
                        \E stft_data \in {StftInputs[i]} :
    Do("make_copy_with_stft_data", i, IF verbose THEN 1 ELSE 0,
       make_copy_with_stft_data(self, stft_data, verbose))

Eq == \E i \in DOMAIN EqOperands : \E other \in {EqOperands[i]} :
    Do("__eq__", i, 0, __eq__(self, other))

Ne == \E i \in DOMAIN EqOperands : \E other \in {EqOperands[i]} :
    Do("__ne__", i, 0, __ne__(self, other))

\* The scalar operators, the copies and the comparisons, on objects made by
\* the assignments.
NextOperators ==
    \/ LoadAudioFromArray
    \/ AssignStftData
    \/ SetActiveRegion
    \/ ApplyGain
    \/ Mul
    \/ TrueDiv
    \/ IMul
    \/ ITrueDiv
    \/ MakeCopyWithAudioData
    \/ MakeCopyWithStftData
    \/ Eq
    \/ Ne

SpecOperators == Init /\ [][NextOperators]_vars

\* The two representations and the operations that connect or read them: the
\* assignments that create them, the transforms, and the channel accessors.
NextTransforms ==
    \/ LoadAudioFromArray
    \/ AssignStftData
    \/ AssignStftParams
    \/ SetActiveRegion
    \/ Stft
    \/ Istft
    \/ GetChannel
    \/ GetStftChannel
    \/ GetChannels
    \/ GetStftChannels
    \/ AssignLongStftData
    \/ ReplaceByCopyWithStftData

SpecTransforms == Init /\ [][NextTransforms]_vars

\* two more arrays assigned to stft_data: a 0-D complex array, np.array(1 + 0j),
\* whose data is its one entry, and a 3-D array of real numbers
OtherStftInputs ==
    << NdArray(0, "complex", Complex(1, 0)),
       NdArray(3, "float", <<<<<<Complex(1, 0)>>, <<Complex(2, 0)>>>>,
                             <<<<Complex(3, 0)>>, <<Complex(4, 0)>>>>>>) >>

AssignOtherStftData == \E i \in DOMAIN OtherStftInputs : \E value \in {OtherStftInputs[i]} :
    Do("stft_data", 0, i, stft_data_setter(self, value))

\* Assignments of stft_data alone, arrays of every rank from 0 to 4 among them.
NextStftData == AssignStftData \/ AssignOtherStftData

SpecStftData == Init /\ [][NextStftData]_vars

\* c = a + self and c = a - self: the object is the right operand
AddToOther == \E i \in DOMAIN OtherSignals : \E a \in {OtherSignals[i]} :
    Do("add (other)", i, 0, add_on_other(a, self))

SubtractFromOther == \E i \in DOMAIN OtherSignals : \E a \in {OtherSignals[i]} :
    Do("subtract (other)", i, 0, subtract_on_other(a, self))

\* c *= 2 on the object c the last call returned: the object itself when the
\* call returned self, another object otherwise.  call.c tells whether c came
\* from add or subtract with an AudioSignal operand.
IMulReturned == \E value \in {GainInputs[1]} :
                \E ofSum \in {IF call.op = "c.__imul__" THEN call.c
                              ELSE IF call.a # 0 THEN 1 ELSE 0} :
                \E g \in {apply_gain(IF call.ret = "self" THEN self ELSE ret, value)} :
    /\ call.exc = "none"
    /\ call.ret \in {"self", "new"}
    /\ Do3("c.__imul__", 1, 0, ofSum,
           IF call.ret = "self" THEN g
           ELSE IF g.exc # "none" THEN Raise(self, g.exc)
           ELSE ReturnNew(self, g.s))

\* Sums and differences, the object being the left or the right operand, and
\* gains applied to their results.
NextArithmetic ==
    \/ LoadAudioFromArray
    \/ AssignStftData
    \/ SetActiveRegion
    \/ Add
    \/ AddInt
    \/ Subtract
    \/ AddToOther
    \/ SubtractFromOther
    \/ IMulReturned

SpecArithmetic == Init /\ [][NextArithmetic]_vars

\* the rates handed to resample
ResampleRates == {FILE_SAMPLE_RATE, 2 * FILE_SAMPLE_RATE}

Resample == \E new_sample_rate \in ResampleRates :
    /\ self._audio_data # NoneArr =>
          NumCols(audio_data(self)) * new_sample_rate <= 2 * MaxLen * self._sample_rate
    /\ Do("resample", new_sample_rate, 0, resample(self, new_sample_rate))

ToMono == \E overwrite \in BOOLEAN, keep_dims \in BOOLEAN :
    Do("to_mono", IF overwrite THEN 1 ELSE 0, IF keep_dims THEN 1 ELSE 0,
       to_mono(self, overwrite, keep_dims))

\* The operations that write one of the two representations or the sample
\* rate, without the transforms.
NextRepresentations ==
    \/ AssignAudioData
    \/ AssignStftData
    \/ LoadAudioFromArray
    \/ SetActiveRegion
    \/ TruncateSamples
    \/ CropSignal
    \/ ZeroPad
    \/ ApplyGain
    \/ ApplyMask
    \/ Resample
    \/ ToMono

SpecRepresentations == Init /\ [][NextRepresentations]_vars

\* the sample arrays and STFT arrays handed to the constructor (indices of
\* AudioInputs and StftInputs; 8 and 6 are None)
ConstructAudioArgs == {1, 3, 4, 5, 8}
ConstructStftArgs == {1, 3, 6}

\* a = AudioSignal(path_to_input_file, audio_data_array, stft): when the
\* constructor raises, the name keeps the object it was bound to
Construct == \E with_path \in BOOLEAN, i \in ConstructAudioArgs, j \in ConstructStftArgs :
             \E audio_data_array \in {AudioInputs[i]}, stft_array \in {StftInputs[j]} :
             \E r \in {init(IF with_path THEN "file.wav" ELSE "None",
                            audio_data_array, stft_array, None, ParamsNone)} :
    Do3("AudioSignal", i, j, IF with_path THEN 1 ELSE 0,
        IF r.exc # "none" THEN Raise(self, r.exc) ELSE Ok(r.s))

\* Construction, and the assignments that a constructed object accepts.
NextConstruct ==
    \/ Construct
    \/ AssignStftData
    \/ AssignStftParams

SpecConstruct == Init /\ [][NextConstruct]_vars

\* ------------------------------------------------------------------ claims
HasAudio(s) == s._audio_data # NoneArr

StructuralMutators == {"truncate_samples", "truncate_seconds", "crop_signal", "zero_pad"}

\* C1: truncate_samples, truncate_seconds, crop_signal and zero_pad raise an
\* AudioSignalException when the active region is not default, and then leave
\* the stored samples and the active region as they were.
C1_MutatorsRefuseActiveRegion ==
    (call.op \in StructuralMutators /\ ~active_region_is_default(pre)) =>
        /\ call.exc = ASE
        /\ self._audio_data = pre._audio_data
        /\ self._active_start = pre._active_start
        /\ self._active_end = pre._active_end

C1_Witness ==
    /\ call.op = "crop_signal"
    /\ HasAudio(pre)
    /\ pre._active_start = 1
    /\ pre._active_end = 2
    /\ call.exc = ASE

\* C2: concat raises an AudioSignalException when the receiver's active region
\* is not default (here: a window that lies within the stored samples), and
\* leaves the receiver's stored samples unchanged.
C2_ConcatRefusesActiveRegion ==
    (/\ call.op = "concat"
     /\ HasAudio(pre)
     /\ ~active_region_is_default(pre)
     /\ 0 <= pre._active_start
     /\ pre._active_start <= pre._active_end
     /\ pre._active_end <= NumCols(pre._audio_data)) =>
        /\ call.exc = ASE
        /\ self._audio_data = pre._audio_data

\* C3: add and subtract of two AudioSignal objects succeed only if both have
\* the same channel count, sample rate and sample length and both have their
\* active region at default.
C3_ArithmeticRequiresDefaultRegions ==
    (call.op \in {"add", "subtract"} /\ call.a # 0 /\ call.exc = "none") =>
        /\ num_channels(pre) = num_channels(OtherSignals[call.a])
        /\ pre._sample_rate = OtherSignals[call.a]._sample_rate
        /\ signal_length(pre) = signal_length(OtherSignals[call.a])
        /\ active_region_is_default(pre)
        /\ active_region_is_default(OtherSignals[call.a])

\* the constant-overlap-add condition of scipy.signal.check_COLA for a window
\* of nperseg samples advanced by hop samples (noverlap = nperseg - hop): the
\* overlapped window samples sum to the same value in every bin
BinSum(win, nperseg, step, j) ==
    LET RECURSIVE Sum(_)
        Sum(ii) == IF ii = 0 THEN 0 ELSE win[(ii - 1) * step + j] + Sum(ii - 1)
    IN Sum(nperseg \div step)
       + (IF j <= nperseg % step THEN win[nperseg - (nperseg % step) + j] ELSE 0)

IsCOLA(params) ==
    LET wt == IF params.window_type = "sqrt_hann" THEN "hann" ELSE params.window_type
        n == params.window_length
        hop == params.hop_length
        win == WindowX2(wt, n)
    IN /\ wt \in KnownWindows
       /\ n >= 1 /\ hop >= 1 /\ hop <= n
       /\ win # <<>> => \A j \in 1..hop : BinSum(win, n, hop, j) = BinSum(win, n, hop, 1)

\* C4: a triple that does not satisfy the constant-overlap-add condition is
\* never the stored stft_params of an AudioSignal.
C4_StoredParamsSatisfyCOLA == IsCOLA(self._stft_params)

FailSafeOps ==
    {"audio_data", "stft_data", "stft_params", "load_audio_from_array", "concat",
     "add", "subtract", "apply_mask", "apply_gain"} \cup StructuralMutators

\* C5: a listed public operation that raises leaves every field of the
\* AudioSignal at its value before the call.
C5_FailureLeavesObjectUnchanged ==
    (call.op \in FailSafeOps /\ call.exc # "none") => self = pre

\* C6: whenever sample data is present, 0 <= active_start <= active_end <=
\* total stored length.
C6_ActiveWindowWithinBuffer ==
    HasAudio(self) =>
        /\ 0 <= self._active_start
        /\ self._active_start <= self._active_end
        /\ self._active_end <= NumCols(self._audio_data)

\* C7: set_active_region(a, b) stores a < 0 as 0 and b > length as the length;
\* for 0 <= a <= b <= length the reads give the stored samples a..b-1 of every
\* channel and the stored array is untouched; set_active_region_to_default
\* makes the reads give the whole stored array again.
C7_ActiveRegionIsolation ==
    /\ (call.op = "set_active_region" /\ HasAudio(pre)) =>
          LET L == NumCols(pre._audio_data)
              a == call.a
              b == call.b
          IN /\ call.exc = "none"
             /\ self._audio_data = pre._audio_data
             /\ a < 0 => self._active_start = 0
             /\ b > L => self._active_end = L
             /\ (0 <= a /\ a <= b /\ b <= L) =>
                   /\ NumRows(audio_data(self)) = NumRows(pre._audio_data)
                   /\ NumCols(audio_data(self)) = b - a
                   /\ \A c \in 1..NumRows(pre._audio_data) : \A i \in 1..(b - a) :
                         audio_data(self)[c][i] = pre._audio_data[c][a + i]
    /\ (call.op = "set_active_region_to_default" /\ HasAudio(pre)) =>
          /\ self._audio_data = pre._audio_data
          /\ audio_data(self) = pre._audio_data

C7_Witness ==
    /\ call.op = "set_active_region"
    /\ call.a = 1
    /\ call.b = 2
    /\ Len(pre._audio_data) = 2
    /\ NumCols(pre._audio_data) = MaxLen
    /\ audio_data(self) = <<<<pre._audio_data[1][2]>>, <<pre._audio_data[2][2]>>>>

AssigningOps ==
    {"audio_data", "load_audio_from_array", "concat", "apply_gain"} \cup StructuralMutators

\* C8: whatever window an object holding samples had, after every accepted
\* assignment of the sample buffer (an array or None) the active region is the
\* default one.
C8_AssignmentResetsActiveRegion ==
    (call.op \in AssigningOps /\ call.exc = "none" /\ HasAudio(pre)) =>
        active_region_is_default(self)

\* C9: for STFT data of shape (F, T, C), apply_mask accepts exactly the masks of
\* shape (F, T, C) and (F, T); any other shape raises an AudioSignalException.
C9_MaskShapeLaw ==
    (call.op = "apply_mask" /\ MaskInputs[call.a].isMaskBase /\ pre._stft_data # NoneArr) =>
        LET sh == StftShape(pre._stft_data)
            msh == MaskInputs[call.a].shape
        IN IF msh = sh \/ msh = SubSeq(sh, 1, 2)
           THEN call.exc = "none"
           ELSE call.exc = ASE

\* C10: apply_mask raises and changes nothing without STFT data; with overwrite
\* it stores the elementwise product and leaves the samples and the active
\* region alone; without overwrite it leaves the receiver unchanged and returns
\* a new AudioSignal with the masked STFT and no sample data.
IsProduct(out, a, m) ==
    /\ StftShape(out) = StftShape(a)
    /\ \A f \in 1..Len(a) : \A t \in 1..Len(a[f]) : \A c \in 1..Len(a[f][t]) :
          out[f][t][c] = CScale(a[f][t][c], m[f][t][c])

C10_ApplyMaskEffect ==
    call.op = "apply_mask" =>
        /\ pre._stft_data = NoneArr => (call.exc # "none" /\ self = pre)
        /\ (call.exc = "none" /\ call.b = 1) =>
              /\ IsProduct(self._stft_data, pre._stft_data, MaskInputs[call.a].mask)
              /\ self._audio_data = pre._audio_data
              /\ self._active_start = pre._active_start
              /\ self._active_end = pre._active_end
              /\ call.ret = "None"
        /\ (call.exc = "none" /\ call.b = 0) =>
              /\ self = pre
              /\ call.ret = "new"
              /\ IsProduct(ret._stft_data, pre._stft_data, MaskInputs[call.a].mask)
              /\ ret._audio_data = NoneArr

C10_Witness ==
    /\ call.op = "apply_mask"
    /\ call.b = 0
    /\ call.exc = "none"
    /\ HasAudio(pre)
    /\ ret._stft_data # NoneArr
    /\ ret._stft_data # pre._stft_data

\* the sample data an object reads is absent or has no elements
NoSamples(s) ==
    audio_data(s) = NoneArr \/ NumRows(audio_data(s)) * NumCols(audio_data(s)) = 0

\* the window length a transform call works with: its argument, or the stored one
CallWindowLength ==
    ArgOr(TransformArgs[call.a].window_length, pre._stft_params.window_length, None)

CallParams ==
    STFTParams(ArgOr(TransformArgs[call.a].window_length, pre._stft_params.window_length, None),
               ArgOr(TransformArgs[call.a].hop_length, pre._stft_params.hop_length, None),
               ArgOr(TransformArgs[call.a].window_type, pre._stft_params.window_type, "None"))

\* the parameters of the call fit the stored STFT: a known window, a positive
\* hop, and a window no longer than the 2 * (bins - 1) samples of a frame
IstftParamsFit ==
    /\ CallParams.window_type \in KnownWindows \cup {"sqrt_hann"}
    /\ CallParams.window_length >= 1
    /\ CallParams.hop_length >= 1
    /\ CallParams.window_length <= 2 * (Len(pre._stft_data) - 1)

HasStft(s) == s._stft_data # NoneArr /\ StftSize(s._stft_data) # 0

\* C12: istft raises an AudioSignalException when the STFT data is absent or
\* empty; otherwise (with parameters that fit the STFT) it returns the
\* reconstructed signal, which replaces the sample data iff overwrite is true
\* or there was no sample data (a result with more channels than samples is
\* stored transposed and is left aside here); with overwrite false and sample
\* data present the samples and the active region stay; stft_data never
\* changes.
C12_IstftContract ==
    call.op = "istft" =>
        /\ ~HasStft(pre) => call.exc = ASE
        /\ (HasStft(pre) /\ IstftParamsFit) =>
              /\ call.exc = "none"
              /\ ((call.b = 1 \/ audio_data(pre) = NoneArr)
                    /\ NumRows(val.r2) <= NumCols(val.r2)) => self._audio_data = val.r2
              /\ (call.b = 0 /\ audio_data(pre) # NoneArr) =>
                    /\ self._audio_data = pre._audio_data
                    /\ self._active_start = pre._active_start
                    /\ self._active_end = pre._active_end
        /\ self._stft_data = pre._stft_data

\* C13: get_channel(n) returns exactly when 0 <= n < the number of channels of
\* the sample data, get_stft_channel(n) exactly when 0 <= n < the number of
\* channels of the STFT data, and every other index raises an
\* AudioSignalException, whatever the other representation holds.
C13_ChannelIndexBounds ==
    /\ (call.op = "get_channel" /\ HasAudio(pre)) =>
          /\ call.exc = "none" <=> (0 <= call.a /\ call.a < NumRows(audio_data(pre)))
          /\ call.exc \in {"none", ASE}
    /\ (call.op = "get_stft_channel" /\ pre._stft_data # NoneArr) =>
          /\ call.exc = "none" <=> (0 <= call.a /\ call.a < StftShape(pre._stft_data)[3])
          /\ call.exc \in {"none", ASE}

\* the length the claim C14 gives for the result of the last call, or None
\* where it gives none
ExpectedLength ==
    LET L == NumCols(pre._audio_data)
    IN CASE call.op = "truncate_samples" /\ call.a >= 0 -> Min(call.a, L)
         [] call.op = "zero_pad" /\ call.a >= 0 /\ call.b >= 0 -> call.a + L + call.b
         [] call.op = "crop_signal" /\ call.a >= 0 /\ call.b >= 0 /\ call.a + call.b <= L ->
                L - call.a - call.b
         [] call.op = "concat" /\ verify_audio(pre, OtherSignals[call.a]) = "none" ->
                L + NumCols(audio_data(OtherSignals[call.a]))
         [] OTHER -> None

\* C14: with the active region at default, on a signal of C channels and L
\* samples, truncate_samples(n), zero_pad(b, a), crop_signal(b, a) and concat
\* succeed and leave min(n, L), b + L + a, L - b - a and L + L2 samples per
\* channel, C channels and a default active region (results of at least one
\* sample are looked at).
C14_MutatorLengths ==
    (HasAudio(pre) /\ active_region_is_default(pre) /\ NumRows(pre._audio_data) > 0
        /\ ExpectedLength # None /\ ExpectedLength >= 1) =>
        /\ call.exc = "none"
        /\ NumCols(self._audio_data) = ExpectedLength
        /\ NumRows(self._audio_data) = NumRows(pre._audio_data)
        /\ active_region_is_default(self)

\* the array handed to the last assignment of audio_data
Assigned == AudioInputs[call.a]

Forward ==
    stft(pre, TransformArgs[call.a].window_length, TransformArgs[call.a].hop_length,
         TransformArgs[call.a].window_type, FALSE)

\* istft, with the parameters of the last call, of the object that call left
\* behind holding the STFT the call returned
Backward ==
    istft([self EXCEPT !._stft_data = val.c3],
          TransformArgs[call.a].window_length, TransformArgs[call.a].hop_length,
          TransformArgs[call.a].window_type, FALSE, None)

SameShapeAndRate(a, b) ==
    /\ HasAudio(a) /\ HasAudio(b)
    /\ NumRows(a._audio_data) = NumRows(b._audio_data)
    /\ NumCols(a._audio_data) = NumCols(b._audio_data)
    /\ a._sample_rate = b._sample_rate
    /\ active_region_is_default(a) /\ active_region_is_default(b)

InPlaceScalarOps == {"apply_gain", "__imul__", "__itruediv__"}
BinaryScalarOps == {"__mul__", "__truediv__"}
DivisionOps == {"__truediv__", "__itruediv__"}

\* the scalar operand of the last call
Operand == IF call.op \in DivisionOps THEN DivisorInputs[call.a] ELSE GainInputs[call.a]

\* C18: on a signal with at least one sample and a default active region, apply_gain, *=
\* and /= with a finite real operand (not 0 for the division) scale every
\* stored sample in place and return the receiver; * and / give the scaled
\* samples (read here as: in the signal they return; the divisor used, -1, is
\* its own reciprocal); with an operand that is
\* not a real number all five raise an AudioSignalException and change nothing.
C18_ScalarGain ==
    (call.op \in InPlaceScalarOps \cup BinaryScalarOps /\ ~NoSamples(pre)
        /\ active_region_is_default(pre)) =>
        /\ ~Operand.real => (call.exc = ASE /\ self = pre)
        /\ (Operand.real /\ Operand.v \notin {0, Inf} /\ call.op \in InPlaceScalarOps) =>
              /\ call.exc = "none"
              /\ call.ret = "self"
              /\ self = [pre EXCEPT !._audio_data = Scale(pre._audio_data, Operand.v)]
        /\ (Operand.real /\ Operand.v \notin {0, Inf} /\ call.op \in BinaryScalarOps) =>
              /\ call.exc = "none"
              /\ ret._audio_data = Scale(pre._audio_data, Operand.v)

\* the fields a copy with replaced data shares with the receiver
SameOtherFields(a, b) ==
    /\ a._sample_rate = b._sample_rate
    /\ a._stft_params = b._stft_params
    /\ a.label = b.label
    /\ a.path_to_input_file = b.path_to_input_file
    /\ a.original_signal_length = b.original_signal_length

CopyAudioArg == AudioInputs[call.a]
CopyStftArg == StftInputs[call.a]

\* C19: make_copy_with_audio_data(d), d a sample array the signal accepts,
\* returns a new signal holding d (channels as rows) and no STFT data;
\* make_copy_with_stft_data(s), s a 3-D STFT array, returns a new signal holding
\* s and no sample data.  Both succeed on any receiver, the copy has the
\* receiver's sample rate, stft_params, label, path and original_signal_length,
\* and the receiver is unchanged.
C19_CopyWithData ==
    /\ (call.op = "make_copy_with_audio_data"
            /\ audio_data_setter(BlankSignal, CopyAudioArg).exc = "none"
            /\ CopyAudioArg.kind = "ndarray") =>
          /\ call.exc = "none"
          /\ call.ret = "new"
          /\ ret._audio_data \in {CopyAudioArg.data, Transpose(CopyAudioArg).data}
          /\ ret._stft_data = NoneArr
          /\ SameOtherFields(ret, pre)
          /\ self = pre
    /\ (call.op = "make_copy_with_stft_data" /\ CopyStftArg.kind = "ndarray"
            /\ CopyStftArg.ndim = 3) =>
          /\ call.exc = "none"
          /\ call.ret = "new"
          /\ ret._stft_data = CopyStftArg.data
          /\ ret._audio_data = NoneArr
          /\ SameOtherFields(ret, pre)
          /\ self = pre

\* the right operand of the last comparison
EqOperand == EqOperands[call.a]

\* C20: a == b never fails and is true exactly when every stored field of a
\* equals that of b (samples and STFT data element by element, a missing array
\* being different from any array); a != b never fails and is its negation.
C20_EqualityIsFieldwise ==
    /\ call.op = "__eq__" => (call.exc = "none" /\ val.bool = (pre = EqOperand))
    /\ call.op = "__ne__" => (call.exc = "none" /\ val.bool = (pre # EqOperand))

\* the number of sources handed to the last constructor call
SourcesGiven ==
    call.c + (IF AudioInputs[call.a].kind # "None" THEN 1 ELSE 0)
           + (IF StftInputs[call.b].kind # "None" THEN 1 ELSE 0)

\* C21: a constructor call with more than one of {file path, sample array,
\* STFT array} raises an AudioSignalException; with none it gives an object
\* without data; with exactly one it gives an object holding that data: the
\* samples of the array or of the file and no STFT data, or the STFT array
\* (with its channel axis) and no samples.
C21_OneSourceAtMost ==
    call.op = "AudioSignal" =>
        /\ SourcesGiven > 1 => (call.exc = ASE /\ self = pre)
        /\ SourcesGiven = 0 =>
              (call.exc = "none" /\ self._audio_data = NoneArr /\ self._stft_data = NoneArr)
        /\ (SourcesGiven = 1 /\ call.c = 1) =>
              /\ call.exc = "none"
              /\ self._audio_data = FileAudio.data
              /\ self._stft_data = NoneArr
              /\ self.path_to_input_file = "file.wav"
        /\ (SourcesGiven = 1 /\ AudioInputs[call.a].kind # "None") =>
              /\ call.exc = "none"
              /\ self._audio_data # NoneArr
              /\ AudioInputs[call.a].dtype = "float" =>
                    self._audio_data \in {AudioInputs[call.a].data,
                                          Transpose(AudioInputs[call.a]).data,
                                          <<AudioInputs[call.a].data>>}
              /\ self._stft_data = NoneArr
        /\ (SourcesGiven = 1 /\ StftInputs[call.b].kind # "None") =>
              /\ call.exc = "none"
              /\ self._audio_data = NoneArr
              /\ self._stft_data # NoneArr
              /\ StftInputs[call.b].ndim = 3 => self._stft_data = StftInputs[call.b].data

\* a constructor call with an STFT array alone has given an object that
\* holds it, in the place of an object that held samples
C21_Witness ==
    /\ call.op = "AudioSignal"
    /\ SourcesGiven = 1
    /\ HasAudio(pre)
    /\ self._audio_data = NoneArr
    /\ self._stft_data = StftInputs[1].data

\* channel c (1-based) of a stored STFT array
StftChannel(a, c) == [f \in 1..Len(a) |-> [t \in 1..Len(a[f]) |-> a[f][t][c]]]

\* C22: iterating get_channels() of an object with samples gives every channel
\* of the active samples, in order; iterating get_stft_channels() of an object
\* with STFT data gives every channel of the STFT data, in order, whatever
\* samples are stored as well.
C22_OneViewPerChannel ==
    /\ (call.op = "get_channels" /\ HasAudio(pre)) =>
          /\ call.exc = "none"
          /\ Len(val.r1s) = NumRows(audio_data(pre))
          /\ \A c \in 1..Len(val.r1s) : val.r1s[c] = audio_data(pre)[c]
    /\ (call.op = "get_stft_channels" /\ HasStft(pre)) =>
          /\ call.exc = "none"
          /\ Len(val.c2s) = StftShape(pre._stft_data)[3]
          /\ \A c \in 1..Len(val.c2s) : val.c2s[c] = StftChannel(pre._stft_data, c)

\* the number of samples per channel the inverse transform of the last call
\* gives before any truncation: the frames overlap-added at the hop, without
\* half a window at either end
KernelLength ==
    CallParams.window_length + (Len(pre._stft_data[1]) - 1) * CallParams.hop_length
        - 2 * (CallParams.window_length \div 2)

\* the length the last istft call truncates to: its argument, else the length
\* of the active samples, else the recorded original length (None if none)
TruncationLength ==
    IF call.c # None THEN call.c
    ELSE IF HasAudio(pre) THEN signal_length(pre)
    ELSE pre.original_signal_length

\* C23: istft cuts its result down to the truncation length (the argument, else
\* the length of the active samples when there are samples, else the recorded
\* original length) when that length is a positive number, and leaves it whole
\* when there is no such length or it is 0 or less.
C23_IstftTruncation ==
    (call.op = "istft" /\ call.exc = "none") =>
        NumCols(val.r2) = IF TruncationLength # None /\ TruncationLength > 0
                          THEN Min(KernelLength, TruncationLength)
                          ELSE KernelLength

\* istft without a length argument, on an object without samples, has cut its
\* result down to the recorded original length
C23_Witness ==
    /\ call.op = "istft"
    /\ call.exc = "none"
    /\ call.c = None
    /\ ~HasAudio(pre)
    /\ pre.original_signal_length # None
    /\ NumCols(val.r2) = pre.original_signal_length
    /\ NumCols(val.r2) < KernelLength

\* C23 as stated: the result is cut down to the truncation length whenever
\* there is one
C23_AlwaysTruncated ==
    (call.op = "istft" /\ call.exc = "none") =>
        NumCols(val.r2) = IF TruncationLength # None
                          THEN Min(KernelLength, TruncationLength)
                          ELSE KernelLength

\* w is the smallest power of two that is at least 32 ms of samples at the
\* sample rate
IsDefaultWindowLength(w, sample_rate) ==
    \E k \in 0..16 :
        /\ w = 2 ^ k
        /\ 1000 * w >= DEFAULT_WIN_LEN_MS * sample_rate
        /\ k > 0 => 1000 * (w \div 2) < DEFAULT_WIN_LEN_MS * sample_rate

\* the fields of the value of the last stft_params assignment (all unset when
\* the value is None)
AssignedParams == ParamInputs[call.a].params

SampleWriters ==
    {"audio_data", "load_audio_from_array", "set_active_region", "apply_gain",
     "resample", "to_mono"} \cup StructuralMutators

\* the operations that write the STFT data, the transforms aside
StftWriters == {"stft_data", "apply_mask"}

SameActiveRegion(a, b) ==
    a._active_start = b._active_start /\ a._active_end = b._active_end

LoadedRate == IF call.b = None THEN DEFAULT_SAMPLE_RATE ELSE call.b

AssignedStft == IF call.a = 0 THEN OtherStftInputs[call.b] ELSE StftInputs[call.a]

\* a 2-D array with a trailing axis of size 1 added
WithChannelAxis(a) == [f \in 1..Len(a) |-> [t \in 1..Len(a[f]) |-> <<a[f][t]>>]]

\* C27: an assignment of an array to stft_data stores a 2-D array with a
\* trailing channel axis of size 1 added and a 3-D array as it is, complex or
\* not, and rejects an array of any other rank with an AudioSignalException
\* that leaves the previous stft_data in place.
C27_StoredStftIs3D ==
    (call.op = "stft_data" /\ AssignedStft.kind = "ndarray") =>
        /\ AssignedStft.ndim = 2 =>
              /\ call.exc = "none"
              /\ self._stft_data = WithChannelAxis(AssignedStft.data)
        /\ AssignedStft.ndim = 3 =>
              /\ call.exc = "none"
              /\ self._stft_data = AssignedStft.data
        /\ AssignedStft.ndim \notin {2, 3} =>
              /\ call.exc = ASE
              /\ self._stft_data = pre._stft_data

\* the columns of the stored buffer that the active region shows: WindowStart + 1
\* to WindowEnd
WindowStart(s) == IF s._active_start # None /\ s._active_start > 0 THEN s._active_start ELSE 0
WindowEnd(s) ==
    IF s._active_end # None /\ s._active_end < NumCols(s._audio_data)
    THEN s._active_end ELSE NumCols(s._audio_data)

\* C28: when apply_gain, *= or /= returns on a signal whose active region is
\* not the default one, the stored buffer has the shape it had and every
\* sample outside the active region is the one that was stored there.
C28_GainKeepsHiddenSamples ==
    (call.op \in InPlaceScalarOps /\ call.exc = "none" /\ HasAudio(pre)
        /\ ~active_region_is_default(pre)) =>
        /\ NumRows(self._audio_data) = NumRows(pre._audio_data)
        /\ NumCols(self._audio_data) = NumCols(pre._audio_data)
        /\ \A c \in 1..NumRows(pre._audio_data), i \in 1..NumCols(pre._audio_data) :
              (i <= WindowStart(pre) \/ i > WindowEnd(pre)) =>
                  self._audio_data[c][i] = pre._audio_data[c][i]

\* the comparison of the last call with its operands exchanged
Reflected == __eq__(EqOperand, pre)

\* C29: a == b and b == a have the same outcome: both return True, or both
\* return False, whatever data the two objects hold.
C29_EqualitySymmetric ==
    call.op = "__eq__" =>
        /\ call.exc = "none"
        /\ Reflected.exc = "none"
        /\ val.bool = Reflected.val.bool

SumOps == {"add", "subtract", "add (other)", "subtract (other)"}

\* C30: add and subtract with an AudioSignal operand leave both operands as
\* they were, whether they return or raise, and what they return is a new
\* object; a later c *= 2 on that object changes neither operand.
C30_SumsLeaveOperands ==
    /\ (call.op \in SumOps /\ call.a # 0) =>
          /\ self = pre
          /\ call.exc = "none" => call.ret = "new"
    /\ (call.op = "c.__imul__" /\ call.c = 1) => self = pre

\* a sum was returned as a new object holding other samples than the operand,
\* which has an STFT too
C30_Witness ==
    /\ call.op \in SumOps /\ call.a # 0 /\ call.exc = "none"
    /\ call.ret = "new"
    /\ ret._audio_data # self._audio_data
    /\ self._stft_data # NoneArr

====
